---------------------------- MODULE Spec2Model ----------------------------
(***************************************************************************)
(* FlowDay: the node tree of the active layout, the operations of the     *)
(* top-level controller (App) on it, its save paths, layouts and keyboard *)
(* handler, and the drag/drop coordinator, the view transform and the     *)
(* resize gesture of the canvas (FlowCanvas).                              *)
(*                                                                         *)
(* A node is a record with the fields id, type and title; a branch node   *)
(* also has branches, a block node also has sideEvents (types.ts).  The   *)
(* other display attributes (subtitle, color, icon, duration) are written *)
(* together with title and never read by an operation; title stands for   *)
(* them.  Titles that are not ASCII in the source are transliterated.      *)
(* JavaScript's null is the string Null; findIndex's -1 is the index 0.    *)
(***************************************************************************)
EXTENDS Integers, Sequences, FiniteSets, TLC

VARIABLES
    nodes,           \* App: const [nodes, setNodes]
    selectedNodeId,  \* App: const [selectedNodeId, setSelectedNodeId]
    now,             \* the value the latest call of Date.now() returned
    isDragging,      \* FlowCanvas: const [isDragging, setIsDragging]
    isOverTrash,     \* FlowCanvas: const [isOverTrash, setIsOverTrash]
    dragOverId,      \* FlowCanvas: const [dragOverId, setDragOverId]
    dropPosition,    \* FlowCanvas: const [dropPosition, setDropPosition]
    dragData,        \* the payload in the platform drag channel, NoDrag when idle
    pointer,         \* the element under the pointer of the drag in progress
    dragTimer,       \* the setTimeout of handleNodeDragStart is pending
    afterDrop,       \* history: a drop ended the latest drag and no drag has started since
    last,            \* history: the last operation, its inputs and the state before it
    layouts,         \* App: const [layouts, setLayouts]
    activeLayoutId,  \* App: const [activeLayoutId, setActiveLayoutId]
    saveStatus,      \* App: const [saveStatus, setSaveStatus]
    storage,         \* localStorage: the record under FLOWDAY_APP_DATA, NoRecord when absent
    debounceTimer,   \* the setTimeout of the auto-save effect is pending
    saveTimers,      \* the pending setTimeouts of handleManualSave and handleCreateLayout
    wrote,           \* history: the latest call of saveToStorage
    writesSinceEdit, \* history: the calls of saveToStorage since the latest edit
    afterReset,      \* history: handleResetData ran, and no edit or new layout followed
    zoom,            \* FlowCanvas: const [zoom, setZoom], in thousandths
    pan,             \* FlowCanvas: const [pan, setPan], exact fractions of a pixel
    viewMode,        \* FlowCanvas: const [viewMode, setViewMode]
    deleteConfirmId, \* App: const [deleteConfirmId, setDeleteConfirmId]
    confirmTimers,   \* the pending setTimeouts of the Backspace handler, in the order set
    armSerial,       \* history: how many times the delete confirmation was armed
    resize           \* BlockRenderer: the closure of the resize gesture in progress

persistence ==
    <<layouts, activeLayoutId, saveStatus, storage, debounceTimer, saveTimers,
      wrote, writesSinceEdit, afterReset>>

viewport == <<zoom, pan, viewMode>>

confirmation == <<deleteConfirmId, confirmTimers, armSerial>>

vars == <<nodes, selectedNodeId, now, isDragging, isOverTrash, dragOverId,
          dropPosition, dragData, pointer, dragTimer, afterDrop, last,
          persistence, viewport, confirmation, resize>>

-----------------------------------------------------------------------------
(* Bounds of the model *)

MaxTime == 1       \* the clock takes the values 0..MaxTime
MaxNodes == 5      \* a node is added while the tree, nested children included, stays within MaxNodes
MaxSide == 1       \* side events are added while a block has fewer than MaxSide
MaxLen == 3        \* the trees the mutator functions are applied to have at most MaxLen top-level nodes
MaxLayouts == 3    \* a layout is created while there are fewer than MaxLayouts
MaxTimers == 1     \* a save is deferred while fewer than MaxTimers deferred saves are pending
MinLeft == 3       \* the persistence specification edits a tree while it holds more than MinLeft nodes

Null == "null"            \* JavaScript's null
Undefined == "undefined"  \* JavaScript's undefined: a field the payload does not carry

\* The number n/d; JavaScript's numbers are modelled by exact fractions in
\* lowest terms
Rat(n, d) == [n |-> n, d |-> d]

abs(k) == IF k < 0 THEN 0 - k ELSE k

RECURSIVE gcd(_, _)
gcd(a, b) == IF b = 0 THEN a ELSE gcd(b, a % b)

norm(n, d) ==
    LET g == gcd(abs(n), abs(d))
        sign == IF d < 0 THEN 0 - 1 ELSE 1
    IN  Rat((sign * n) \div g, (sign * d) \div g)

int(k) == Rat(k, 1)
ratAdd(a, b) == norm(a.n * b.d + b.n * a.d, a.d * b.d)
ratSub(a, b) == norm(a.n * b.d - b.n * a.d, a.d * b.d)
ratMul(a, b) == norm(a.n * b.n, a.d * b.d)
ratDiv(a, b) == norm(a.n * b.d, a.d * b.n)

\* The zoom factor of z thousandths
zoomRat(z) == norm(z, 1000)

Min(a, b) == IF a < b THEN a ELSE b
Max(a, b) == IF a > b THEN a ELSE b


-----------------------------------------------------------------------------
(* constants.tsx: the first five nodes of the built-in weekday layout *)

INITIAL_NODES ==
    << [id |-> "1", type |-> "time", title |-> "08:00"],
       [id |-> "2", type |-> "branch", title |-> "morning routine",
        branches |-> << [id |-> "2a", type |-> "task", title |-> "wash"],
                        [id |-> "2b", type |-> "task", title |-> "news"] >>],
       [id |-> "block_1", type |-> "block", title |-> "deep work",
        sideEvents |-> << [id |-> "side_1", type |-> "time", title |-> "11:10"] >>],
       [id |-> "task_lunch", type |-> "task", title |-> "lunch"],
       [id |-> "block_2", type |-> "block", title |-> "after lunch", sideEvents |-> <<>>] >>

\* constants.tsx: the first two nodes of the built-in weekend layout
WEEKEND_NODES ==
    << [id |-> "w1", type |-> "time", title |-> "10:00"],
       [id |-> "w2", type |-> "task", title |-> "Brunch"] >>

\* App.tsx: the built-in layouts
DEFAULT_LAYOUTS ==
    << [id |-> "layout_weekday", name |-> "weekday", nodes |-> INITIAL_NODES],
       [id |-> "layout_weekend", name |-> "weekend", nodes |-> WEEKEND_NODES] >>

-----------------------------------------------------------------------------
(* Helpers on sequences: Array.prototype.map / filter / findIndex / splice *)

RECURSIVE findIndexFrom(_, _, _)
findIndexFrom(list, id, i) ==
    IF i > Len(list) THEN 0
    ELSE IF list[i].id = id THEN i
    ELSE findIndexFrom(list, id, i + 1)

\* list.findIndex(n => n.id === id), 1-based, 0 when there is none
findIndex(list, id) == findIndexFrom(list, id, 1)

\* list.some(n => n.id === id)
someId(list, id) == \E i \in DOMAIN list : list[i].id = id

\* list.filter(n => n.id !== id)
filterOut(list, id) == SelectSeq(list, LAMBDA n : n.id # id)

\* list.splice(i, 1) on a copy: the list without its i-th element
removeAt(list, i) == SubSeq(list, 1, i - 1) \o SubSeq(list, i + 1, Len(list))

\* list.splice(i, 0, n) on a copy: n becomes the element at 1-based index i
insertAt(list, i, n) == SubSeq(list, 1, i - 1) \o <<n>> \o SubSeq(list, i, Len(list))

\* The nested children of a top-level node, whatever its kind
kidsOf(n) ==
    IF n.type = "branch" THEN n.branches
    ELSE IF n.type = "block" THEN n.sideEvents
    ELSE <<>>

RECURSIVE flatten(_)
\* Every node of a tree, top-level nodes and nested children, in document order
flatten(list) ==
    IF list = <<>> THEN <<>>
    ELSE <<Head(list)>> \o kidsOf(Head(list)) \o flatten(Tail(list))

allIds(list) == {flatten(list)[i].id : i \in DOMAIN flatten(list)}
nodeCount(list) == Len(flatten(list))
uniqueIds(list) == Cardinality(allIds(list)) = nodeCount(list)

-----------------------------------------------------------------------------
(* App.handleUpdateNode: updateRecursive *)

\* Variant of replaceIn: the map returns updatedNode for every child
replaceIn_EveryChild(kids, updatedNode) == [i \in DOMAIN kids |-> updatedNode]

\* branch.branches.map(b => b.id === updatedNode.id ? updatedNode : b)
replaceIn(kids, updatedNode) ==
    [i \in DOMAIN kids |-> IF kids[i].id = updatedNode.id THEN updatedNode ELSE kids[i]]

\* The body of list.map(n => ...) for one node n
updateOne(n, updatedNode) ==
    IF n.id = updatedNode.id THEN updatedNode
    ELSE IF n.type = "branch" /\ someId(n.branches, updatedNode.id)
         THEN [n EXCEPT !.branches = replaceIn(n.branches, updatedNode)]
    ELSE IF n.type = "block" /\ someId(n.sideEvents, updatedNode.id)
         THEN [n EXCEPT !.sideEvents = replaceIn(n.sideEvents, updatedNode)]
    ELSE n

updateRecursive(list, updatedNode) ==
    [i \in DOMAIN list |-> updateOne(list[i], updatedNode)]

-----------------------------------------------------------------------------
(* App.handleDeleteNode: deleteRecursive *)

\* The body of .map(n => ...) for one node n that survived the filter
deleteInside(n, id) ==
    IF n.type = "branch" THEN [n EXCEPT !.branches = filterOut(n.branches, id)]
    ELSE IF n.type = "block" THEN [n EXCEPT !.sideEvents = filterOut(n.sideEvents, id)]
    ELSE n

\* Variant of deleteRecursive: the filter of the top level alone
deleteRecursive_TopLevelOnly(list, id) == filterOut(list, id)

\* Variant of deleteRecursive: the first top-level match is spliced out, the
\* nested children are filtered when the top level has no match
deleteRecursive_FirstMatch(list, id) ==
    IF findIndex(list, id) # 0 THEN removeAt(list, findIndex(list, id))
    ELSE [i \in DOMAIN list |-> deleteInside(list[i], id)]

\* Variant of deleteRecursive: list.splice(list.findIndex(...), 1) with no test
\* for -1, which splices the last element out
deleteRecursive_Splice(list, id) ==
    LET at == IF findIndex(list, id) # 0 THEN findIndex(list, id) ELSE Len(list)
        kept == IF list = <<>> THEN list ELSE removeAt(list, at)
    IN  [i \in DOMAIN kept |-> deleteInside(kept[i], id)]

deleteRecursive(list, id) ==
    LET kept == filterOut(list, id)
    IN  [i \in DOMAIN kept |-> deleteInside(kept[i], id)]

-----------------------------------------------------------------------------
(* The time source and App.createNode *)

\* Date.now().toString(): the digits of the epoch date the session began on are
\* the same in every reading; only the low digits, the clock of the model, vary.
DateNowString(t) == "17300000000" \o ToString(t)

createNode(type, t) ==
    LET newId == DateNowString(t)
    IN  IF type = "block"
        THEN [id |-> newId, type |-> "block", title |-> "new block", sideEvents |-> <<>>]
        ELSE IF type = "branch"
        THEN [id |-> newId, type |-> "branch", title |-> "parallel group",
              branches |-> << [id |-> newId \o "_1", type |-> "task", title |-> "task A"],
                              [id |-> newId \o "_2", type |-> "task", title |-> "task B"] >>]
        ELSE [id |-> newId, type |-> type,
              title |-> IF type = "time" THEN "00:00" ELSE "new node"]

-----------------------------------------------------------------------------
(* App.handleAddNode *)

addNodeResult(list, selected, newNode) ==
    LET rootIndex == findIndex(list, selected)
    IN  IF selected # Null /\ rootIndex # 0
        THEN insertAt(list, rootIndex + 1, newNode)
        ELSE Append(list, newNode)

-----------------------------------------------------------------------------
(* App.handleDropNode *)

NoDrag == [source |-> "none", id |-> Undefined, type |-> "none"]

\* Where the handler returns before setNodes: the early returns of
\* "if (dragData.id === targetId) return" and "if (existingIndex === -1) return"
dropReturnsEarly(list, data, targetId) ==
    \/ data.id = targetId
    \/ data.source = "canvas" /\ findIndex(list, data.id) = 0
    \/ data.source \notin {"sidebar", "canvas"}

\* Variant of dropRemaining: the dragged canvas node stays where it was
dropRemaining_Keep(list, data) == list

\* newNodes after the removal of a dragged canvas node
dropRemaining(list, data) ==
    IF data.source = "canvas" THEN removeAt(list, findIndex(list, data.id)) ELSE list

\* nodeToInsert
dropInserted(list, data, t) ==
    IF data.source = "sidebar" THEN createNode(data.type, t)
    ELSE list[findIndex(list, data.id)]

\* Variant of dropIndex: 'after' splices at the target's index as 'before' does
dropIndex_NoOffset(rest, targetId, position) ==
    LET targetIndex == findIndex(rest, targetId)
    IN  IF position = "append" \/ targetId = Null THEN Len(rest) + 1
        ELSE IF targetIndex # 0 THEN targetIndex
        ELSE Len(rest) + 1

\* The index nodeToInsert is spliced in at, among the remaining nodes
dropIndex(rest, targetId, position) ==
    LET targetIndex == findIndex(rest, targetId)
    IN  IF position = "append" \/ targetId = Null THEN Len(rest) + 1
        ELSE IF targetIndex # 0
             THEN (IF position = "before" THEN targetIndex ELSE targetIndex + 1)
        ELSE Len(rest) + 1

\* The sequence handleDropNode passes to setNodes, or the list itself when it
\* returns early
dropResult(list, data, targetId, position, t) ==
    IF dropReturnsEarly(list, data, targetId) THEN list
    ELSE LET rest == dropRemaining(list, data)
         IN  insertAt(rest, dropIndex(rest, targetId, position), dropInserted(list, data, t))

\* selectedNodeId after handleDropNode
dropSelection(list, selected, data, targetId, t) ==
    IF ~dropReturnsEarly(list, data, targetId) /\ data.source = "sidebar"
    THEN createNode(data.type, t).id
    ELSE selected

-----------------------------------------------------------------------------
(* PropertiesPanel: findNode and the handlers that build the node passed to *)
(* onUpdateNode                                                              *)

NoNode == [id |-> Undefined, type |-> "none", title |-> ""]

\* findNode(id): the first node of the document order with that id, NoNode for
\* undefined
findNode(list, id) ==
    LET flat == flatten(list)
        at == findIndex(flat, id)
    IN  IF at = 0 THEN NoNode ELSE flat[at]

\* handleChange('title', value)
changedNode(selectedNode, value) == [selectedNode EXCEPT !.title = value]

\* Variant of newBranchChild: the pushed child is itself a branch
newBranchChild_Nested(branch, t, i) ==
    [id |-> branch.id \o "_task_" \o DateNowString(t) \o "_" \o ToString(i),
     type |-> "branch",
     title |-> IF i = 0 THEN "main task" ELSE "parallel task",
     branches |-> <<>>]

\* The child handleBranchCountChange pushes at 0-based index i
newBranchChild(branch, t, i) ==
    [id |-> branch.id \o "_task_" \o DateNowString(t) \o "_" \o ToString(i),
     type |-> "task",
     title |-> IF i = 0 THEN "main task" ELSE "parallel task"]

RECURSIVE pushBranches(_, _, _, _)
\* for (let i = newBranches.length; i < count; i++) newBranches.push(...)
pushBranches(branch, newBranches, count, t) ==
    IF Len(newBranches) >= count THEN newBranches
    ELSE pushBranches(branch,
                      Append(newBranches, newBranchChild(branch, t, Len(newBranches))),
                      count, t)

\* Variant of branchCountNode: a smaller count leaves the children as they are
branchCountNode_NoTruncate(branch, count, t) ==
    [branch EXCEPT !.branches =
        IF count > Len(branch.branches) THEN pushBranches(branch, branch.branches, count, t)
        ELSE branch.branches]

\* The node handleBranchCountChange(count) passes to onUpdateNode
branchCountNode(branch, count, t) ==
    [branch EXCEPT !.branches =
        IF count > Len(branch.branches) THEN pushBranches(branch, branch.branches, count, t)
        ELSE IF count < Len(branch.branches) THEN SubSeq(branch.branches, 1, count)
        ELSE branch.branches]

\* newEvent of addSideEvent(type)
newSideEvent(block, type, t) ==
    [id |-> block.id \o "_side_" \o DateNowString(t),
     type |-> type,
     title |-> IF type = "time" THEN "12:00" ELSE "new task"]

\* The node addSideEvent(type) passes to onUpdateNode
sideEventNode(block, type, t) ==
    [block EXCEPT !.sideEvents = Append(block.sideEvents, newSideEvent(block, type, t))]

-----------------------------------------------------------------------------
(* FlowCanvas.handleDrop: what it calls with the payload and the hover state *)
(* of the render it closes over                                              *)

\* Variant of deleteSelection: the selection stays as it is
deleteSelection_Keep(selected, id) == selected

\* handleDeleteNode: if (selectedNodeId === id) setSelectedNodeId(null)
deleteSelection(selected, id) == IF selected = id THEN Null ELSE selected

\* "delete", "drop" or "none": the callback handleDrop invokes
dropCall(data, overTrash, overId, position) ==
    IF overTrash
    THEN (IF data.source = "canvas" THEN "delete" ELSE "none")
    ELSE IF overId # Null /\ position # Null
    THEN (IF data.id # overId THEN "drop" ELSE "none")
    ELSE (IF data.source = "sidebar" THEN "drop" ELSE "none")

\* The target and position handleDrop passes to onDropNode
dropTarget(overId, position) == IF overId # Null /\ position # Null THEN overId ELSE Null
dropPos(overId, position) == IF overId # Null /\ position # Null THEN position ELSE "append"

\* handleDrop reaches createNode, which reads the clock
dropCreates(data, overTrash, overId, position) ==
    dropCall(data, overTrash, overId, position) = "drop" /\ data.source = "sidebar"

\* Variant of handleDropNodes: neither handleDrop nor handleDropNode compares
\* the payload's id with the target
handleDropNodes_NoSelfTest(list, data, overTrash, overId, position, t) ==
    IF overTrash
    THEN (IF data.source = "canvas" THEN deleteRecursive(list, data.id) ELSE list)
    ELSE IF overId # Null /\ position # Null
    THEN (IF data.source = "canvas" /\ findIndex(list, data.id) = 0 THEN list
          ELSE insertAt(dropRemaining(list, data),
                        dropIndex(dropRemaining(list, data), overId, position),
                        dropInserted(list, data, t)))
    ELSE (IF data.source = "sidebar" THEN Append(list, createNode(data.type, t)) ELSE list)

\* handleDrop reaches a call of setNodes
dropSetsNodes(list, data, overTrash, overId, position) ==
    LET call == dropCall(data, overTrash, overId, position)
    IN  \/ call = "delete"
        \/ call = "drop" /\ ~dropReturnsEarly(list, data, dropTarget(overId, position))

\* nodes after handleDrop
handleDropNodes(list, data, overTrash, overId, position, t) ==
    LET call == dropCall(data, overTrash, overId, position)
    IN  IF call = "delete" THEN deleteRecursive(list, data.id)
        ELSE IF call = "drop"
        THEN dropResult(list, data, dropTarget(overId, position), dropPos(overId, position), t)
        ELSE list

\* selectedNodeId after handleDrop
handleDropSelection(list, selected, data, overTrash, overId, position, t) ==
    LET call == dropCall(data, overTrash, overId, position)
    IN  IF call = "delete" THEN deleteSelection(selected, data.id)
        ELSE IF call = "drop"
        THEN dropSelection(list, selected, data, dropTarget(overId, position), t)
        ELSE selected

-----------------------------------------------------------------------------
(* App: the persistence functions and the effects that follow a render *)

\* layouts.map(l => l.id === id ? { ...l, nodes: list } : l), of getPersistentData
\* and of the sync effect
mergeNodes(currentLayouts, id, list) ==
    [i \in DOMAIN currentLayouts |->
        IF currentLayouts[i].id = id
        THEN [currentLayouts[i] EXCEPT !.nodes = list]
        ELSE currentLayouts[i]]

getPersistentData(currentLayouts, currentActiveId, currentNodes) ==
    [layouts |-> mergeNodes(currentLayouts, currentActiveId, currentNodes),
     activeLayoutId |-> currentActiveId]

\* layouts.find(l => l.id === id): the index of the first layout with that id, 0
\* for undefined
findLayout(currentLayouts, id) ==
    IF \E i \in DOMAIN currentLayouts : currentLayouts[i].id = id
    THEN CHOOSE i \in DOMAIN currentLayouts :
            /\ currentLayouts[i].id = id
            /\ \A j \in 1..(i - 1) : currentLayouts[j].id # id
    ELSE 0

\* localStorage holds nothing under FLOWDAY_APP_DATA
NoRecord == [layouts |-> <<>>, activeLayoutId |-> ""]

\* saveToStorage(data): ok is whether localStorage.setItem returns; when it throws,
\* the catch block leaves the stored record and saveStatus as they are
storedBy(data, ok) == IF ok THEN data ELSE storage

\* Variant of statusBy: a write that succeeded leaves the state marked unsaved
statusBy_Unsaved(status, ok) == IF ok THEN "unsaved" ELSE status

\* saveToStorage(data): setSaveStatus('saved') after setItem returned
statusBy(status, ok) == IF ok THEN "saved" ELSE status

\* No call of saveToStorage yet
NoWrite == [by |-> "none", ok |-> TRUE, activeLayoutId |-> "", held |-> FALSE,
            nodes |-> <<>>, fresh |-> FALSE]

\* The sync effect's setSaveStatus, run in a render whose saveStatus is status
syncStatus(status) == IF status # "saving" THEN "unsaved" ELSE status

\* The render that follows setNodes in a handler that edits the tree: the sync
\* effect merges nodes into the active layout and marks the state unsaved, and
\* the auto-save effect clears its timer and sets it again
Rendered ==
    /\ layouts' = mergeNodes(layouts, activeLayoutId, nodes')
    /\ saveStatus' = syncStatus(saveStatus)
    /\ debounceTimer' = TRUE
    /\ writesSinceEdit' = 0
    /\ afterReset' = FALSE
    /\ UNCHANGED <<activeLayoutId, storage, saveTimers, wrote>>

\* The state the load effect and the effects of the first two renders leave, for
\* the record found in localStorage.  The sync effect of the first render closes
\* over the initial state: its update of layouts is applied after the load
\* effect's, and merges INITIAL_NODES into 'layout_weekday'
loads(record) == Len(record.layouts) > 0
falsy(v) == v \in {"", Null, Undefined}
loadedActiveId(record) ==
    IF ~loads(record) THEN "layout_weekday"
    ELSE IF ~falsy(record.activeLayoutId) THEN record.activeLayoutId
    ELSE record.layouts[1].id
loadedNodes(record) ==
    IF ~loads(record) THEN INITIAL_NODES
    ELSE IF findLayout(record.layouts, loadedActiveId(record)) # 0
    THEN record.layouts[findLayout(record.layouts, loadedActiveId(record))].nodes
    ELSE record.layouts[1].nodes
loadedLayouts(record) ==
    mergeNodes(mergeNodes(IF loads(record) THEN record.layouts ELSE DEFAULT_LAYOUTS,
                          "layout_weekday", INITIAL_NODES),
               loadedActiveId(record), loadedNodes(record))

\* The persistence state of an editor that works on the tree list in the built-in
\* weekday layout, nothing stored yet
freshPersistence(list) ==
    /\ layouts = mergeNodes(DEFAULT_LAYOUTS, "layout_weekday", list)
    /\ activeLayoutId = "layout_weekday"
    /\ saveStatus = "unsaved"
    /\ storage = NoRecord
    /\ debounceTimer = TRUE
    /\ saveTimers = <<>>
    /\ wrote = NoWrite
    /\ writesSinceEdit = 0
    /\ afterReset = FALSE

\* The canvas as FlowCanvas mounts it
freshViewport ==
    /\ zoom = 1000
    /\ pan = [x |-> Rat(0, 1), y |-> Rat(0, 1)]
    /\ viewMode = "vertical"

\* No resize gesture is in progress
NoResize == [active |-> FALSE, node |-> NoNode, nodes |-> <<>>]

\* Nothing armed, no gesture: the state App and BlockRenderer mount with
freshGestures ==
    /\ deleteConfirmId = Null
    /\ confirmTimers = <<>>
    /\ armSerial = 0
    /\ resize = NoResize

\* useEffect(() => { setDeleteConfirmId(null); }, [selectedNodeId]): the render
\* after a handler that changed the selection clears the pending confirmation
SelectionEffect ==
    /\ deleteConfirmId' = IF selectedNodeId' # selectedNodeId THEN Null ELSE deleteConfirmId
    /\ UNCHANGED <<confirmTimers, armSerial>>

-----------------------------------------------------------------------------
(* The editor: state after the load effect, and one action per event handler *)

\* No pointer event was the last event
NoEvent == [clientX |-> 0, clientY |-> 0]

\* The operation op with its arguments, and the state it runs in
Record(op, id, node) ==
    [op |-> op, id |-> id, node |-> node, count |-> 0, event |-> NoEvent,
     nodes |-> nodes, selectedNodeId |-> selectedNodeId, now |-> now,
     isDragging |-> isDragging, isOverTrash |-> isOverTrash,
     dragOverId |-> dragOverId, dropPosition |-> dropPosition,
     dragData |-> dragData, pointer |-> pointer,
     activeLayoutId |-> activeLayoutId, layouts |-> layouts,
     saveStatus |-> saveStatus, writesSinceEdit |-> writesSinceEdit,
     pending |-> Len(saveTimers),
     deleteConfirmId |-> deleteConfirmId, armSerial |-> armSerial,
     zoom |-> zoom, pan |-> pan]

\* No operation on the tree was the last event
NoOp ==
    [op |-> "none", id |-> Null, node |-> NoNode, count |-> 0, event |-> NoEvent,
     nodes |-> <<>>, selectedNodeId |-> Null, now |-> 0,
     isDragging |-> FALSE, isOverTrash |-> FALSE,
     dragOverId |-> Null, dropPosition |-> Null,
     dragData |-> NoDrag, pointer |-> "none",
     activeLayoutId |-> Null, layouts |-> <<>>,
     saveStatus |-> "none", writesSinceEdit |-> 0, pending |-> 0,
     deleteConfirmId |-> Null, armSerial |-> 0,
     zoom |-> 0, pan |-> [x |-> Rat(0, 1), y |-> Rat(0, 1)]]

coordinator ==
    <<isDragging, isOverTrash, dragOverId, dropPosition, dragData, pointer, dragTimer, afterDrop>>

Init ==
    /\ nodes = SubSeq(INITIAL_NODES, 1, 2)
    /\ selectedNodeId = Null
    /\ now = 0
    /\ isDragging = FALSE
    /\ isOverTrash = FALSE
    /\ dragOverId = Null
    /\ dropPosition = Null
    /\ dragData = NoDrag
    /\ pointer = "none"
    /\ dragTimer = FALSE
    /\ afterDrop = FALSE
    /\ last = NoOp
    /\ freshGestures
    /\ freshPersistence(nodes)
    /\ freshViewport

\* No drag gesture is in progress: the pointer is free for clicks
idle == dragData = NoDrag

\* What a call of Date.now() may return: the value of the previous call (the same
\* millisecond) or a later one
clockReadings == {t \in {now, now + 1} : t <= MaxTime}

\* Sidebar onClick: App.handleAddNode(type)
AddNode(type, t) ==
    /\ idle
    /\ nodeCount(nodes) + nodeCount(<<createNode(type, t)>>) <= MaxNodes
    /\ now' = t
    /\ nodes' = addNodeResult(nodes, selectedNodeId, createNode(type, t))
    /\ selectedNodeId' = createNode(type, t).id
    /\ last' = Record("add", Null, createNode(type, t))
    /\ Rendered
    /\ UNCHANGED <<coordinator, viewport>>
    /\ SelectionEffect
    /\ UNCHANGED resize

\* A click on a top-level node of the canvas: onSelect(node.id)
Select(i) ==
    /\ idle
    /\ selectedNodeId' = nodes[i].id
    /\ last' = NoOp
    /\ UNCHANGED <<nodes, now, coordinator, persistence, viewport>>
    /\ SelectionEffect
    /\ UNCHANGED resize

\* PropertiesPanel onClose
ClosePanel ==
    /\ idle
    /\ selectedNodeId # Null
    /\ selectedNodeId' = Null
    /\ last' = NoOp
    /\ UNCHANGED <<nodes, now, coordinator, persistence, viewport>>
    /\ SelectionEffect
    /\ UNCHANGED resize

\* The PropertiesPanel is rendered with a node to edit
panelOpen == selectedNodeId # Null /\ findNode(nodes, selectedNodeId) # NoNode

\* App.handleUpdateNode(updatedNode), called from the PropertiesPanel by the
\* handler op, whose numeric argument, if it has one, is count
UpdateNodeBy(op, count, updatedNode) ==
    /\ nodes' = updateRecursive(nodes, updatedNode)
    /\ last' = [Record(op, updatedNode.id, updatedNode) EXCEPT !.count = count]
    /\ Rendered
    /\ UNCHANGED <<selectedNodeId, coordinator, viewport>>
    /\ SelectionEffect
    /\ UNCHANGED resize

UpdateNode(op, updatedNode) == UpdateNodeBy(op, 0, updatedNode)

\* PropertiesPanel.handleChange('title', value)
ChangeTitle(value) ==
    /\ idle
    /\ panelOpen
    /\ findNode(nodes, selectedNodeId).title # value
    /\ UpdateNode("update", changedNode(findNode(nodes, selectedNodeId), value))
    /\ UNCHANGED now

\* PropertiesPanel.handleBranchCountChange(count)
BranchCountChange(count, t) ==
    /\ idle
    /\ panelOpen
    /\ findNode(nodes, selectedNodeId).type = "branch"
    /\ nodeCount(nodes) - Len(findNode(nodes, selectedNodeId).branches) + count <= MaxNodes
    /\ now' = IF count > Len(findNode(nodes, selectedNodeId).branches) THEN t ELSE now
    /\ count <= Len(findNode(nodes, selectedNodeId).branches) => t = now
    /\ UpdateNodeBy("branchCount", count,
                    branchCountNode(findNode(nodes, selectedNodeId), count, t))

\* PropertiesPanel.addSideEvent(type)
AddSideEvent(type, t) ==
    /\ idle
    /\ panelOpen
    /\ findNode(nodes, selectedNodeId).type = "block"
    /\ Len(findNode(nodes, selectedNodeId).sideEvents) < MaxSide
    /\ nodeCount(nodes) < MaxNodes
    /\ now' = t
    /\ UpdateNode("addSideEvent", sideEventNode(findNode(nodes, selectedNodeId), type, t))

\* App.handleDeleteNode(id)
DeleteNode(id) ==
    /\ nodes' = deleteRecursive(nodes, id)
    /\ selectedNodeId' = deleteSelection(selectedNodeId, id)
    /\ last' = Record("delete", id, NoNode)
    /\ Rendered
    /\ UNCHANGED <<now, coordinator, viewport>>
    /\ SelectionEffect
    /\ UNCHANGED resize

\* The delete button of the PropertiesPanel: onDeleteNode(selectedNode.id)
PanelDelete ==
    /\ idle
    /\ panelOpen
    /\ DeleteNode(findNode(nodes, selectedNodeId).id)

-----------------------------------------------------------------------------
(* The drag/drop coordinator (FlowCanvas, Sidebar) *)

\* An identifier another window of the application may drag in: a top-level node
\* of the weekday layout that this window may no longer hold
CrossWindowIds == {"task_lunch"}

\* onDragLeave of the trash zone, dispatched when the pointer leaves it
leaveTrash == IF pointer = "trash" THEN FALSE ELSE isOverTrash

\* Sidebar.handleDragStart(e, type)
SidebarDragStart(type) ==
    /\ idle
    /\ dragData' = [source |-> "sidebar", id |-> Undefined, type |-> type]
    /\ afterDrop' = FALSE
    /\ last' = NoOp
    /\ UNCHANGED <<persistence, viewport>>
    /\ UNCHANGED <<nodes, selectedNodeId, now, isDragging, isOverTrash, dragOverId,
                   dropPosition, pointer, dragTimer>>
    /\ SelectionEffect
    /\ UNCHANGED resize

\* FlowCanvas.handleNodeDragStart(e, node): the flag is set by a timer, 10 ms later
NodeDragStart(i) ==
    /\ idle
    /\ dragData' = [source |-> "canvas", id |-> nodes[i].id, type |-> nodes[i].type]
    /\ dragTimer' = TRUE
    /\ afterDrop' = FALSE
    /\ last' = NoOp
    /\ UNCHANGED <<persistence, viewport>>
    /\ UNCHANGED <<nodes, selectedNodeId, now, isDragging, isOverTrash, dragOverId,
                   dropPosition, pointer>>
    /\ SelectionEffect
    /\ UNCHANGED resize

\* A drag that began in handleNodeDragStart of another window enters this one
CrossWindowDragEnter(id) ==
    /\ idle
    /\ dragData' = [source |-> "canvas", id |-> id, type |-> "task"]
    /\ afterDrop' = FALSE
    /\ last' = NoOp
    /\ UNCHANGED <<persistence, viewport>>
    /\ UNCHANGED <<nodes, selectedNodeId, now, isDragging, isOverTrash, dragOverId,
                   dropPosition, pointer, dragTimer>>
    /\ SelectionEffect
    /\ UNCHANGED resize

\* The callback of setTimeout(() => setIsDragging(true), 10)
DragTimerFire ==
    /\ dragTimer
    /\ dragTimer' = FALSE
    /\ isDragging' = TRUE
    /\ last' = NoOp
    /\ UNCHANGED <<persistence, viewport>>
    /\ UNCHANGED <<nodes, selectedNodeId, now, isOverTrash, dragOverId, dropPosition,
                   dragData, pointer, afterDrop>>
    /\ SelectionEffect
    /\ UNCHANGED resize

\* getBoundingClientRect() of a node's drop zone; the pointer events of the model
\* have their coordinates in ZonePoints
ZoneRect == [left |-> 0, top |-> 0, width |-> 2, height |-> 2]
ZonePoints == {0, 1, 2}

\* pos of handleNodeDragOver: VerticalLayout compares clientY with the zone's
\* midpoint, MapLayout sets 'after'
nodeDragOverPosition(mode, e, rect) ==
    IF mode = "vertical"
    THEN (IF e.clientY < rect.top + rect.height \div 2 THEN "before" ELSE "after")
    ELSE "after"

\* dragover, event e, on the drop zone of top-level node i:
\* handleNodeDragOver(e, node.id) of the layout that is rendered
HoverNode(i, e) ==
    /\ ~idle
    /\ isOverTrash' = leaveTrash
    /\ dragOverId' = nodes[i].id
    /\ dropPosition' = nodeDragOverPosition(viewMode, e, ZoneRect)
    /\ pointer' = "node"
    /\ last' = [NoOp EXCEPT !.op = "hover", !.id = nodes[i].id, !.event = e]
    /\ UNCHANGED <<persistence, viewport>>
    /\ UNCHANGED <<nodes, selectedNodeId, now, isDragging, dragData, dragTimer, afterDrop>>
    /\ SelectionEffect
    /\ UNCHANGED resize

\* dragover on the canvas outside every node's drop zone: FlowCanvas.handleDragOver.
\* onContainer: the event's target is the container element itself; otherwise it
\* is one of the wrappers the container is filled with (lines 222-236)
HoverCanvas(onContainer) ==
    /\ ~idle
    /\ isOverTrash' = leaveTrash
    /\ dragOverId' = IF onContainer THEN Null ELSE dragOverId
    /\ dropPosition' = IF onContainer THEN Null ELSE dropPosition
    /\ pointer' = "canvas"
    /\ last' = NoOp
    /\ UNCHANGED <<persistence, viewport>>
    /\ UNCHANGED <<nodes, selectedNodeId, now, isDragging, dragData, dragTimer, afterDrop>>
    /\ SelectionEffect
    /\ UNCHANGED resize

\* dragover on the trash zone, which takes pointer events only while isDragging
HoverTrash ==
    /\ ~idle
    /\ isDragging
    /\ isOverTrash' = TRUE
    /\ dragOverId' = Null
    /\ pointer' = "trash"
    /\ last' = NoOp
    /\ UNCHANGED <<persistence, viewport>>
    /\ UNCHANGED <<nodes, selectedNodeId, now, isDragging, dropPosition, dragData, dragTimer, afterDrop>>
    /\ SelectionEffect
    /\ UNCHANGED resize

\* The pointer leaves every drop zone of the canvas
HoverOutside ==
    /\ ~idle
    /\ pointer # "none"
    /\ isOverTrash' = leaveTrash
    /\ pointer' = "none"
    /\ last' = NoOp
    /\ UNCHANGED <<persistence, viewport>>
    /\ UNCHANGED <<nodes, selectedNodeId, now, isDragging, dragOverId, dropPosition,
                   dragData, dragTimer, afterDrop>>
    /\ SelectionEffect
    /\ UNCHANGED resize

\* drop on the element under the pointer: FlowCanvas.handleDrop, with the
\* callback of App it invokes
Drop(t) ==
    /\ ~idle
    /\ pointer # "none"
    /\ nodeCount(handleDropNodes(nodes, dragData, isOverTrash, dragOverId, dropPosition, t)) <= MaxNodes
    /\ now' = IF dropCreates(dragData, isOverTrash, dragOverId, dropPosition) THEN t ELSE now
    /\ ~dropCreates(dragData, isOverTrash, dragOverId, dropPosition) => t = now
    /\ isDragging' = FALSE
    /\ dragOverId' = Null
    /\ dropPosition' = Null
    /\ isOverTrash' = FALSE
    /\ nodes' = handleDropNodes(nodes, dragData, isOverTrash, dragOverId, dropPosition, t)
    /\ selectedNodeId' = handleDropSelection(nodes, selectedNodeId, dragData, isOverTrash,
                                             dragOverId, dropPosition, t)
    /\ dragData' = NoDrag
    /\ pointer' = "none"
    /\ afterDrop' = TRUE
    /\ last' = Record("drop", dragData.id, NoNode)
    /\ IF dropSetsNodes(nodes, dragData, isOverTrash, dragOverId, dropPosition)
       THEN Rendered
       ELSE UNCHANGED persistence
    /\ UNCHANGED <<dragTimer, viewport>>
    /\ SelectionEffect
    /\ UNCHANGED resize

\* The drag ends without a drop event (cancelled, or released outside every drop
\* zone): no handler of the application runs but the trash zone's onDragLeave
DragEnd ==
    /\ ~idle
    /\ isOverTrash' = leaveTrash
    /\ dragData' = NoDrag
    /\ pointer' = "none"
    /\ last' = NoOp
    /\ UNCHANGED <<persistence, viewport>>
    /\ UNCHANGED <<nodes, selectedNodeId, now, isDragging, dragOverId, dropPosition, dragTimer, afterDrop>>
    /\ SelectionEffect
    /\ UNCHANGED resize

-----------------------------------------------------------------------------
(* The drag/drop coordinator's specification: the gestures on the canvas, step *)
(* by step, with the deletion the properties panel offers for the node the     *)
(* latest sidebar drop selected                                                *)

DragTypes == {"task"}

Next ==
    \/ PanelDelete
    \/ \E type \in DragTypes : SidebarDragStart(type)
    \/ \E i \in DOMAIN nodes : NodeDragStart(i)
    \/ \E id \in CrossWindowIds : CrossWindowDragEnter(id)
    \/ DragTimerFire
    \/ \E i \in DOMAIN nodes, y \in {0, 2} : HoverNode(i, [clientX |-> 1, clientY |-> y])
    \/ \E onContainer \in BOOLEAN : HoverCanvas(onContainer)
    \/ HoverTrash
    \/ HoverOutside
    \/ \E t \in clockReadings : Drop(t)
    \/ DragEnd

Spec == Init /\ [][Next]_vars

-----------------------------------------------------------------------------
(* The tree mutator's specification: handleDeleteNode and handleUpdateNode,   *)
(* and the handlers of the sidebar and of the properties panel that end in    *)
(* them, applied once to every tree of a bounded set, nested identifiers,     *)
(* repeated identifiers and identifiers the tree does not hold included; a    *)
(* delete may be repeated once with the same identifier                       *)

AddTypes == {"time", "task", "place", "branch", "block"}
Titles == {"edited"}

\* A top-level task that bears the identifier of a child of the branch '2'
twin == [id |-> "2a", type |-> "task", title |-> "twin"]

NodePool == {INITIAL_NODES[i] : i \in DOMAIN INITIAL_NODES} \cup {twin}

RECURSIVE seqsUpTo(_, _)
\* The sequences of at most n elements of pool
seqsUpTo(pool, n) ==
    IF n = 0 THEN {<<>>}
    ELSE seqsUpTo(pool, n - 1)
         \cup {Append(sq, x) : sq \in {q \in seqsUpTo(pool, n - 1) : Len(q) = n - 1}, x \in pool}

Trees == seqsUpTo(NodePool, MaxLen)

\* The identifiers passed to handleDeleteNode
DeleteIds == allIds(INITIAL_NODES) \cup {"nowhere"}

\* The nodes passed to handleUpdateNode: an edit of every node of the pool, a
\* branch with a third child, a block with one more side event, a node the tree
\* does not hold
UpdatePool ==
    {changedNode(flatten(INITIAL_NODES)[i], "edited") : i \in DOMAIN flatten(INITIAL_NODES)}
    \cup {branchCountNode(INITIAL_NODES[2], 3, 0),
          sideEventNode(INITIAL_NODES[3], "task", 0),
          [id |-> "nowhere", type |-> "task", title |-> "edited"]}

MutatorInit ==
    /\ nodes \in Trees
    /\ selectedNodeId \in {Null} \cup {nodes[i].id : i \in DOMAIN nodes}
    /\ now = 0
    /\ isDragging = FALSE
    /\ isOverTrash = FALSE
    /\ dragOverId = Null
    /\ dropPosition = Null
    /\ dragData = NoDrag
    /\ pointer = "none"
    /\ dragTimer = FALSE
    /\ afterDrop = FALSE
    /\ last = NoOp
    /\ freshGestures
    /\ freshPersistence(nodes)
    /\ freshViewport

\* The tree is as drawn: no operation has run on it
untouched == last.op = "none"

MutatorDelete(id) ==
    /\ untouched
    /\ DeleteNode(id)

MutatorUpdate(updatedNode) ==
    /\ untouched
    /\ UpdateNode("update", updatedNode)
    /\ UNCHANGED now

\* handleDeleteNode once more, with the identifier of the delete before; last
\* keeps the tree the first delete was applied to
MutatorDeleteAgain ==
    /\ last.op = "delete"
    /\ nodes' = deleteRecursive(nodes, last.id)
    /\ selectedNodeId' = deleteSelection(selectedNodeId, last.id)
    /\ last' = [last EXCEPT !.op = "deleteAgain"]
    /\ Rendered
    /\ UNCHANGED <<now, coordinator, viewport>>
    /\ SelectionEffect
    /\ UNCHANGED resize

MutatorNext ==
    \/ \E id \in DeleteIds : MutatorDelete(id)
    \/ \E updatedNode \in UpdatePool : MutatorUpdate(updatedNode)
    \/ MutatorDeleteAgain
    \/ \E type \in AddTypes, t \in clockReadings : untouched /\ AddNode(type, t)
    \/ \E i \in DOMAIN nodes : untouched /\ Select(i)
    \/ untouched /\ ClosePanel
    \/ \E value \in Titles : untouched /\ ChangeTitle(value)
    \/ \E count \in {2, 3}, t \in clockReadings :
          (untouched \/ last.op = "branchCount") /\ BranchCountChange(count, t)
    \/ \E type \in {"task", "time"}, t \in clockReadings : untouched /\ AddSideEvent(type, t)
    \/ untouched /\ PanelDelete

MutatorSpec == MutatorInit /\ [][MutatorNext]_vars

-----------------------------------------------------------------------------
(* The drop's specification: handleDrop, with the callback of App it invokes, *)
(* applied once to every tree of the bounded set, with every payload a drag   *)
(* can carry over it and every hover state a drag can leave                   *)

\* The payloads of a drag over the tree list: a sidebar tool, each top-level
\* node, a node of another window
DropPayloads(list) ==
    {[source |-> "sidebar", id |-> Undefined, type |-> type] : type \in DragTypes}
    \cup {[source |-> "canvas", id |-> list[i].id, type |-> list[i].type] : i \in DOMAIN list}
    \cup {[source |-> "canvas", id |-> id, type |-> "task"] : id \in CrossWindowIds}

\* The hover states <<pointer, isOverTrash, dragOverId, dropPosition>> a drag
\* over the tree list can be dropped in: on a node's drop zone; on the canvas,
\* the hover cleared or left by a node hovered before, which the tree may have
\* lost since; on the trash zone, which clears dragOverId alone
HoverStates(list) ==
    {<<"node", FALSE, list[i].id, pos>> : i \in DOMAIN list, pos \in {"before", "after"}}
    \cup {<<"canvas", FALSE, Null, Null>>}
    \cup {<<"canvas", FALSE, id, pos>> :
            id \in {list[i].id : i \in DOMAIN list} \cup {"nowhere"}, pos \in {"before", "after"}}
    \cup {<<"trash", TRUE, Null, pos>> : pos \in {Null, "after"}}

DropInit ==
    /\ nodes \in Trees
    /\ selectedNodeId \in {Null} \cup {nodes[i].id : i \in DOMAIN nodes}
    /\ now = 0
    /\ dragData \in DropPayloads(nodes)
    /\ \E h \in HoverStates(nodes) :
          /\ pointer = h[1]
          /\ isOverTrash = h[2]
          /\ dragOverId = h[3]
          /\ dropPosition = h[4]
    /\ isDragging = (dragData.source = "canvas" \/ isOverTrash)
    /\ dragTimer = FALSE
    /\ afterDrop = FALSE
    /\ last = NoOp
    /\ freshGestures
    /\ freshPersistence(nodes)
    /\ freshViewport

DropNext == \E t \in clockReadings : Drop(t)

DropSpec == DropInit /\ [][DropNext]_vars

-----------------------------------------------------------------------------
(* Persistence: the save paths of App, their timers, the layout menu and the *)
(* reset                                                                      *)

\* The bookkeeping of a call of saveToStorage(data) from the path by.  Of the
\* record, wrote keeps its activeLayoutId, whether it holds a layout of that id
\* (held) and the nodes of that layout, and whether the record is the one
\* getPersistentData makes of the state at the time of the call (fresh)
Write(by, data, ok) ==
    /\ storage' = storedBy(data, ok)
    /\ wrote' = [by |-> by, ok |-> ok,
                 activeLayoutId |-> data.activeLayoutId,
                 held |-> findLayout(data.layouts, data.activeLayoutId) # 0,
                 nodes |-> IF findLayout(data.layouts, data.activeLayoutId) # 0
                           THEN data.layouts[findLayout(data.layouts, data.activeLayoutId)].nodes
                           ELSE <<>>,
                 fresh |-> data = getPersistentData(layouts, activeLayoutId, nodes)]
    /\ writesSinceEdit' = IF writesSinceEdit < 2 THEN writesSinceEdit + 1 ELSE 2

\* No setTimeout(..., 0) is pending: such a timer fires before the next event of
\* the user can be dispatched
settled == \A i \in DOMAIN saveTimers : saveTimers[i].kind # "create"

\* An edit of the working tree: its first node is deleted
EditNodes ==
    /\ idle
    /\ settled
    /\ Len(nodes) > MinLeft
    /\ DeleteNode(nodes[1].id)

\* The callback of the auto-save effect's setTimeout, 1000 ms after the latest
\* render that changed nodes, layouts, activeLayoutId or saveStatus.  Every
\* deferred save was set no later than this timer and is due earlier.
DebounceFire(ok) ==
    /\ debounceTimer
    /\ saveTimers = <<>>
    /\ IF saveStatus = "unsaved"
       THEN /\ Write("debounce", getPersistentData(layouts, activeLayoutId, nodes), ok)
            /\ saveStatus' = statusBy("saving", ok)
            /\ debounceTimer' = TRUE
       ELSE /\ ok
            /\ debounceTimer' = FALSE
            /\ UNCHANGED <<storage, wrote, writesSinceEdit, saveStatus>>
    /\ UNCHANGED <<nodes, selectedNodeId, now, coordinator, last, viewport,
                   layouts, activeLayoutId, saveTimers, afterReset>>
    /\ SelectionEffect
    /\ UNCHANGED resize

\* The save button, disabled while saveStatus is 'saving': handleManualSave
ManualSave ==
    /\ idle
    /\ settled
    /\ saveStatus # "saving"
    /\ Len(saveTimers) < MaxTimers
    /\ saveStatus' = "saving"
    /\ saveTimers' = Append(saveTimers,
                            [kind |-> "manual",
                             data |-> getPersistentData(layouts, activeLayoutId, nodes)])
    /\ debounceTimer' = TRUE
    /\ last' = Record("save", Null, NoNode)
    /\ UNCHANGED <<nodes, selectedNodeId, now, coordinator, viewport,
                   layouts, activeLayoutId, storage, wrote, writesSinceEdit, afterReset>>
    /\ SelectionEffect
    /\ UNCHANGED resize

\* The callback of a deferred save: setTimeout(() => saveToStorage(data), 300) of
\* handleManualSave, setTimeout(..., 0) of handleCreateLayout.  Timers of one
\* delay fire in the order they were set.
SaveTimerFire(i, ok) ==
    /\ \A j \in 1..(i - 1) : saveTimers[j].kind # saveTimers[i].kind
    /\ Write(saveTimers[i].kind, saveTimers[i].data, ok)
    /\ saveStatus' = statusBy(saveStatus, ok)
    /\ debounceTimer' = (debounceTimer \/ saveStatus' # saveStatus)
    /\ saveTimers' = removeAt(saveTimers, i)
    /\ UNCHANGED <<nodes, selectedNodeId, now, coordinator, last, viewport,
                   layouts, activeLayoutId, afterReset>>
    /\ SelectionEffect
    /\ UNCHANGED resize

\* visibilitychange with document.hidden: the emergency save
HidePage(ok) ==
    /\ settled
    /\ Write("hidden", getPersistentData(layouts, activeLayoutId, nodes), ok)
    /\ saveStatus' = statusBy(saveStatus, ok)
    /\ debounceTimer' = (debounceTimer \/ saveStatus' # saveStatus)
    /\ last' = [NoOp EXCEPT !.op = "hidden"]
    /\ UNCHANGED <<nodes, selectedNodeId, now, coordinator, viewport,
                   layouts, activeLayoutId, saveTimers, afterReset>>
    /\ SelectionEffect
    /\ UNCHANGED resize

\* The layout menu: handleSwitchLayout(newLayoutId), and the render after it,
\* whose sync effect runs with the saveStatus the save left
SwitchLayout(newLayoutId, ok) ==
    /\ idle
    /\ settled
    /\ newLayoutId # activeLayoutId
    /\ findLayout(layouts, newLayoutId) # 0
    /\ Write("switch", getPersistentData(layouts, activeLayoutId, nodes), ok)
    /\ activeLayoutId' = newLayoutId
    /\ nodes' = layouts[findLayout(layouts, newLayoutId)].nodes
    /\ selectedNodeId' = Null
    /\ layouts' = mergeNodes(layouts, newLayoutId, nodes')
    /\ saveStatus' = syncStatus(statusBy(saveStatus, ok))
    /\ debounceTimer' = TRUE
    /\ last' = Record("switch", newLayoutId, NoNode)
    /\ UNCHANGED <<now, coordinator, viewport, saveTimers, afterReset>>
    /\ SelectionEffect
    /\ UNCHANGED resize

\* The layout menu: handleCreateLayout, the prompt answered with name
CreateLayout(name, t, ok) ==
    LET newId == "layout_" \o DateNowString(t)
        newLayout == [id |-> newId, name |-> name, nodes |-> <<>>]
    IN  /\ idle
        /\ settled
        /\ Len(layouts) < MaxLayouts
        /\ Len(saveTimers) < MaxTimers
        /\ Write("create", getPersistentData(layouts, activeLayoutId, nodes), ok)
        /\ now' = t
        /\ layouts' = mergeNodes(Append(layouts, newLayout), newId, <<>>)
        /\ activeLayoutId' = newId
        /\ nodes' = <<>>
        /\ selectedNodeId' = Null
        /\ saveTimers' = Append(saveTimers,
                                [kind |-> "create",
                                 data |-> getPersistentData(Append(layouts, newLayout), newId, <<>>)])
        /\ saveStatus' = syncStatus(statusBy(saveStatus, ok))
        /\ debounceTimer' = TRUE
        /\ afterReset' = FALSE
        /\ last' = Record("create", newId, NoNode)
        /\ UNCHANGED <<coordinator, viewport>>
        /\ SelectionEffect
        /\ UNCHANGED resize

\* The reset button: handleResetData, the confirm dialog accepted.  The sync
\* effect runs after it when nodes or activeLayoutId changed.
ResetData ==
    /\ idle
    /\ settled
    /\ storage' = NoRecord
    /\ layouts' = DEFAULT_LAYOUTS
    /\ activeLayoutId' = "layout_weekday"
    /\ nodes' = INITIAL_NODES
    /\ selectedNodeId' = Null
    /\ saveStatus' = IF nodes # INITIAL_NODES \/ activeLayoutId # "layout_weekday"
                     THEN "unsaved" ELSE "saved"
    /\ debounceTimer' = TRUE
    /\ afterReset' = TRUE
    /\ last' = Record("reset", Null, NoNode)
    /\ UNCHANGED <<now, coordinator, viewport, saveTimers, wrote, writesSinceEdit>>
    /\ SelectionEffect
    /\ UNCHANGED resize

\* The records the load effect may find under FLOWDAY_APP_DATA: none; what the
\* application wrote with the weekday or the weekend layout active; records
\* whose activeLayoutId is empty, or names none of their layouts
savedLayouts == mergeNodes(DEFAULT_LAYOUTS, "layout_weekday", SubSeq(INITIAL_NODES, 1, 4))
PersistedRecords ==
    {NoRecord}
    \cup {[layouts |-> savedLayouts, activeLayoutId |-> id] :
            id \in {"layout_weekday", "layout_weekend", "", "layout_gone"}}

SaveInit ==
    /\ storage \in PersistedRecords
    /\ layouts = loadedLayouts(storage)
    /\ activeLayoutId = loadedActiveId(storage)
    /\ nodes = loadedNodes(storage)
    /\ saveStatus = "unsaved"
    /\ debounceTimer = TRUE
    /\ saveTimers = <<>>
    /\ wrote = NoWrite
    /\ writesSinceEdit = 0
    /\ afterReset = FALSE
    /\ selectedNodeId = Null
    /\ now = 0
    /\ isDragging = FALSE
    /\ isOverTrash = FALSE
    /\ dragOverId = Null
    /\ dropPosition = Null
    /\ dragData = NoDrag
    /\ pointer = "none"
    /\ dragTimer = FALSE
    /\ afterDrop = FALSE
    /\ last = NoOp
    /\ freshGestures
    /\ freshViewport

LayoutNames == {"trip"}

SaveNext ==
    \/ EditNodes
    \/ \E ok \in BOOLEAN : DebounceFire(ok)
    \/ ManualSave
    \/ \E i \in DOMAIN saveTimers, ok \in BOOLEAN : SaveTimerFire(i, ok)
    \/ \E ok \in BOOLEAN : HidePage(ok)
    \/ \E i \in DOMAIN layouts, ok \in BOOLEAN : SwitchLayout(layouts[i].id, ok)
    \/ \E name \in LayoutNames, t \in clockReadings, ok \in BOOLEAN : CreateLayout(name, t, ok)
    \/ ResetData

SaveSpec == SaveInit /\ [][SaveNext]_vars

\* The save paths alone, without the layout menu and the reset: edits, the save
\* button, the timers and the emergency save
ManualSaveNext ==
    \/ EditNodes
    \/ \E ok \in BOOLEAN : DebounceFire(ok)
    \/ ManualSave
    \/ \E i \in DOMAIN saveTimers, ok \in BOOLEAN : SaveTimerFire(i, ok)
    \/ \E ok \in BOOLEAN : HidePage(ok)

ManualSaveSpec == SaveInit /\ [][ManualSaveNext]_vars

-----------------------------------------------------------------------------
(* FlowCanvas: the view transform and the layouts *)

\* containerRef.current.getBoundingClientRect()
ContainerRect == [left |-> 20, top |-> 10]

\* e.buttons === 2 || e.ctrlKey
zoomMode(e) == e.buttons = 2 \/ e.ctrlKey

\* mouseX, mouseY of handleWheel
wheelMouse(e) == [x |-> e.clientX - ContainerRect.left, y |-> e.clientY - ContainerRect.top]

\* Variant of wheelWorld: the pan of the view is left out
wheelWorld_NoPan(mouse, p, z) ==
    [x |-> ratDiv(int(mouse.x), zoomRat(z)),
     y |-> ratDiv(int(mouse.y), zoomRat(z))]

\* worldX, worldY of handleWheel
wheelWorld(mouse, p, z) ==
    [x |-> ratDiv(ratSub(int(mouse.x), p.x), zoomRat(z)),
     y |-> ratDiv(ratSub(int(mouse.y), p.y), zoomRat(z))]

\* newZoom of handleWheel: scaleAmount = -e.deltaY * 0.001 is -e.deltaY thousandths
wheelZoom(z, e) == Min(Max(z - e.deltaY, 200), 3000)

\* newPanX, newPanY of handleWheel
wheelPan(p, z, e) ==
    LET mouse == wheelMouse(e)
        world == wheelWorld(mouse, p, z)
    IN  [x |-> ratSub(int(mouse.x), ratMul(world.x, zoomRat(wheelZoom(z, e)))),
         y |-> ratSub(int(mouse.y), ratMul(world.y, zoomRat(wheelZoom(z, e))))]

\* onWheel of the container: FlowCanvas.handleWheel
Wheel(e) ==
    /\ zoom' = IF zoomMode(e) THEN wheelZoom(zoom, e) ELSE zoom
    /\ pan' = IF zoomMode(e) THEN wheelPan(pan, zoom, e)
              ELSE [x |-> ratSub(pan.x, int(e.deltaX)), y |-> ratSub(pan.y, int(e.deltaY))]
    /\ last' = [Record("wheel", Null, NoNode) EXCEPT !.event = e]
    /\ UNCHANGED <<nodes, selectedNodeId, now, coordinator, persistence, viewMode>>
    /\ SelectionEffect
    /\ UNCHANGED resize

\* The zoom-in button: handleZoomIn
ZoomIn ==
    /\ zoom' = Min(zoom + 100, 2000)
    /\ last' = Record("zoomIn", Null, NoNode)
    /\ UNCHANGED <<nodes, selectedNodeId, now, coordinator, persistence, pan, viewMode>>
    /\ SelectionEffect
    /\ UNCHANGED resize

\* The zoom-out button: handleZoomOut
ZoomOut ==
    /\ zoom' = Max(zoom - 100, 200)
    /\ last' = Record("zoomOut", Null, NoNode)
    /\ UNCHANGED <<nodes, selectedNodeId, now, coordinator, persistence, pan, viewMode>>
    /\ SelectionEffect
    /\ UNCHANGED resize

\* The reset-view button: handleResetZoom
ResetZoom ==
    /\ zoom' = 1000
    /\ pan' = [x |-> int(0), y |-> int(0)]
    /\ last' = Record("resetZoom", Null, NoNode)
    /\ UNCHANGED <<nodes, selectedNodeId, now, coordinator, persistence, viewMode>>
    /\ SelectionEffect
    /\ UNCHANGED resize

\* The view button: setViewMode(prev => ...), and the effect that resets the
\* transform when viewMode changes
ToggleView ==
    /\ viewMode' = IF viewMode = "vertical" THEN "map" ELSE "vertical"
    /\ zoom' = 1000
    /\ pan' = [x |-> int(0), y |-> int(0)]
    /\ last' = Record("toggleView", Null, NoNode)
    /\ UNCHANGED <<nodes, selectedNodeId, now, coordinator, persistence>>
    /\ SelectionEffect
    /\ UNCHANGED resize

\* MapLayout: the grid of the snake
GRID_W == 260
GRID_H == 220
COLS == 4
OFFSET_X == 150
OFFSET_Y == 150

\* Variant of snakeCol: every row runs from left to right
snakeCol_NoReverse(i) == i % COLS

\* row and col of the node at 0-based index i
snakeRow(i) == i \div COLS
snakeCol(i) == IF snakeRow(i) % 2 = 0 THEN i % COLS ELSE COLS - 1 - (i % COLS)

\* positions of MapLayout, 1-based as nodes is
positions(list) ==
    [k \in DOMAIN list |->
        [x |-> snakeCol(k - 1) * GRID_W + OFFSET_X,
         y |-> snakeRow(k - 1) * GRID_H + OFFSET_Y,
         row |-> snakeRow(k - 1),
         isRightEnd |-> snakeRow(k - 1) % 2 = 0 /\ snakeCol(k - 1) = COLS - 1,
         isLeftEnd |-> snakeRow(k - 1) % 2 # 0 /\ snakeCol(k - 1) = 0]]

-----------------------------------------------------------------------------
(* The view's specification: one wheel event or one click of a view button in  *)
(* every view of a bounded set, and a click of a zoom button after a wheel     *)
(* event                                                                        *)

\* Zoom levels the zoom buttons reach, and pans that panning by whole pixels reaches
ZoomLevels == {200, 500, 1000, 1900, 2000}
Pans == {[x |-> int(0), y |-> int(0)], [x |-> int(0 - 40), y |-> int(30)]}

WheelEvents ==
    {[clientX |-> c[1], clientY |-> c[2], deltaX |-> 0, deltaY |-> dy,
      ctrlKey |-> ctrl, buttons |-> b] :
        c \in {<<120, 110>>, <<20, 60>>}, dy \in {0 - 2000, 0 - 500, 300, 2000},
        ctrl \in BOOLEAN, b \in {0, 2}}

ViewInit ==
    /\ nodes = SubSeq(INITIAL_NODES, 1, 2)
    /\ selectedNodeId = Null
    /\ now = 0
    /\ isDragging = FALSE
    /\ isOverTrash = FALSE
    /\ dragOverId = Null
    /\ dropPosition = Null
    /\ dragData = NoDrag
    /\ pointer = "none"
    /\ dragTimer = FALSE
    /\ afterDrop = FALSE
    /\ last = NoOp
    /\ freshGestures
    /\ freshPersistence(nodes)
    /\ zoom \in ZoomLevels
    /\ pan \in Pans
    /\ viewMode \in {"vertical", "map"}

ViewNext ==
    \/ \E e \in WheelEvents : untouched /\ Wheel(e)
    \/ (untouched \/ last.op = "wheel") /\ ZoomIn
    \/ (untouched \/ last.op = "wheel") /\ ZoomOut
    \/ untouched /\ ResetZoom
    \/ untouched /\ ToggleView

ViewSpec == ViewInit /\ [][ViewNext]_vars

-----------------------------------------------------------------------------
(* The layouts' specification: a drag hovers the drop zones of the nodes, in   *)
(* either layout, over lists long enough for the snake to turn twice           *)

MaxMapNodes == 9   \* the lists laid out have at most MaxMapNodes nodes

\* The built-in nodes, followed by tasks added one per millisecond
MapNodes ==
    INITIAL_NODES \o [k \in 1..(MaxMapNodes - Len(INITIAL_NODES)) |-> createNode("task", k)]

LayoutInit ==
    /\ \E n \in 0..MaxMapNodes : nodes = SubSeq(MapNodes, 1, n)
    /\ selectedNodeId = Null
    /\ now = 0
    /\ isDragging = FALSE
    /\ isOverTrash = FALSE
    /\ dragOverId = Null
    /\ dropPosition = Null
    /\ dragData \in DropPayloads(SubSeq(nodes, 1, Min(1, Len(nodes))))
    /\ pointer = "none"
    /\ dragTimer = FALSE
    /\ afterDrop = FALSE
    /\ last = NoOp
    /\ freshGestures
    /\ freshPersistence(nodes)
    /\ freshViewport

LayoutNext ==
    \/ \E i \in DOMAIN nodes, x \in ZonePoints, y \in ZonePoints :
          HoverNode(i, [clientX |-> x, clientY |-> y])
    \/ ToggleView

LayoutSpec == LayoutInit /\ [][LayoutNext]_vars

-----------------------------------------------------------------------------
(* The keyboard and the resize handle: the Backspace handler of App with its   *)
(* confirmation timers, and the resize gesture of a selected block, whose      *)
(* mouse-move listener keeps the closure of the render the gesture began in    *)

MaxArmings == 2   \* the delete confirmation is armed at most MaxArmings times

\* The keydown handler of App for Backspace, the focus outside every input: a
\* second press on the armed node deletes it, a first press arms the
\* confirmation and sets a timer of 3000 ms whose callback closes over the
\* selection of this render
Backspace ==
    /\ idle
    /\ selectedNodeId # Null
    /\ IF deleteConfirmId = selectedNodeId
       THEN DeleteNode(selectedNodeId)
       ELSE /\ armSerial < MaxArmings
            /\ deleteConfirmId' = selectedNodeId
            /\ confirmTimers' = Append(confirmTimers,
                                       [id |-> selectedNodeId, serial |-> armSerial + 1])
            /\ armSerial' = armSerial + 1
            /\ last' = Record("arm", selectedNodeId, NoNode)
            /\ UNCHANGED <<nodes, selectedNodeId, now, coordinator, persistence,
                           viewport, resize>>

\* The callback of the oldest confirmation timer:
\* setDeleteConfirmId(prev => prev === selectedNodeId ? null : prev)
ConfirmTimerFire ==
    /\ confirmTimers # <<>>
    /\ deleteConfirmId' = IF deleteConfirmId = Head(confirmTimers).id
                          THEN Null ELSE deleteConfirmId
    /\ confirmTimers' = Tail(confirmTimers)
    /\ last' = [Record("confirmTimer", Head(confirmTimers).id, NoNode)
                   EXCEPT !.count = Head(confirmTimers).serial]
    /\ UNCHANGED <<nodes, selectedNodeId, now, coordinator, persistence, viewport,
                   armSerial, resize>>

\* BlockRenderer.handleResizeStart, on the handle NodeShape shows for the
\* selected block of the vertical layout: handleMouseMove closes over node and
\* over onUpdateNode, the handleUpdateNode of this render with its nodes
ResizeStart(i) ==
    /\ idle
    /\ ~resize.active
    /\ viewMode = "vertical"
    /\ nodes[i].type = "block"
    /\ selectedNodeId = nodes[i].id
    /\ resize' = [active |-> TRUE, node |-> nodes[i], nodes |-> nodes]
    /\ last' = NoOp
    /\ UNCHANGED <<nodes, selectedNodeId, now, coordinator, persistence, viewport,
                   confirmation>>

\* The node handleMouseMove passes to onUpdateNode; dx and dy are the pointer's
\* displacement since the start of the gesture, divided by the zoom
resizedNode(node, dx, dy) ==
    [customWidth |-> Max(100, (IF "customWidth" \in DOMAIN node
                               THEN node.customWidth ELSE 128) + dx),
     customHeight |-> Max(100, (IF "customHeight" \in DOMAIN node
                                THEN node.customHeight ELSE 128) + dy)] @@ node

\* handleMouseMove of the gesture: onUpdateNode is the handleUpdateNode the
\* gesture closed over, whose setNodes(updateRecursive(nodes)) reads the nodes
\* of that render
ResizeMove(dx, dy) ==
    /\ resize.active
    /\ nodes' = updateRecursive(resize.nodes, resizedNode(resize.node, dx, dy))
    /\ last' = [Record("resize", resize.node.id, resizedNode(resize.node, dx, dy))
                   EXCEPT !.event = [clientX |-> dx, clientY |-> dy]]
    /\ Rendered
    /\ UNCHANGED <<selectedNodeId, now, coordinator, viewport, confirmation, resize>>

\* handleMouseUp of the gesture removes the listeners
ResizeEnd ==
    /\ resize.active
    /\ resize' = NoResize
    /\ last' = NoOp
    /\ UNCHANGED <<nodes, selectedNodeId, now, coordinator, persistence, viewport,
                   confirmation>>

\* The pointer's displacements of the model: the block shrinks or keeps its size
Displacements == {0 - 40, 0}

GestureInit ==
    /\ nodes = SubSeq(INITIAL_NODES, 1, 3)
    /\ selectedNodeId = Null
    /\ now = 0
    /\ isDragging = FALSE
    /\ isOverTrash = FALSE
    /\ dragOverId = Null
    /\ dropPosition = Null
    /\ dragData = NoDrag
    /\ pointer = "none"
    /\ dragTimer = FALSE
    /\ afterDrop = FALSE
    /\ last = NoOp
    /\ freshGestures
    /\ freshPersistence(nodes)
    /\ freshViewport

\* Clicks need the pointer, which a resize gesture holds; the keyboard does not
GestureNext ==
    \/ \E i \in DOMAIN nodes : ~resize.active /\ Select(i)
    \/ ~resize.active /\ ClosePanel
    \/ Backspace
    \/ ConfirmTimerFire
    \/ \E value \in Titles : ChangeTitle(value)
    \/ \E i \in DOMAIN nodes : ResizeStart(i)
    \/ \E dx \in Displacements, dy \in Displacements : ResizeMove(dx, dy)
    \/ ResizeEnd

GestureSpec == GestureInit /\ [][GestureNext]_vars

-----------------------------------------------------------------------------
(* The selection's specification: every handler that sets nodes or the       *)
(* selection, applied once to every tree of the bounded set, with a node of  *)
(* it selected or none, and the delete confirmation armed for it or not      *)

\* A leaf, a branch with its children, a block without side events, and a
\* top-level node that shares its identifier with a child of the branch
SelectionPool == {INITIAL_NODES[1], INITIAL_NODES[2], INITIAL_NODES[5], twin}

SelectionInit ==
    /\ nodes \in seqsUpTo(SelectionPool, MaxLen)
    /\ selectedNodeId \in {Null} \cup {nodes[i].id : i \in DOMAIN nodes}
    /\ now = 0
    /\ isDragging = FALSE
    /\ isOverTrash = FALSE
    /\ dragOverId = Null
    /\ dropPosition = Null
    /\ dragData = NoDrag
    /\ pointer = "none"
    /\ dragTimer = FALSE
    /\ afterDrop = FALSE
    /\ last = NoOp
    /\ deleteConfirmId \in {Null, selectedNodeId}
    /\ confirmTimers = IF deleteConfirmId = Null THEN <<>>
                       ELSE <<[id |-> deleteConfirmId, serial |-> 1]>>
    /\ armSerial = IF deleteConfirmId = Null THEN 0 ELSE 1
    /\ resize = NoResize
    /\ freshPersistence(nodes)
    /\ freshViewport

SelectionNext ==
    \/ MutatorNext
    \/ untouched /\ Backspace
    \/ \E i \in DOMAIN layouts, ok \in BOOLEAN : untouched /\ SwitchLayout(layouts[i].id, ok)
    \/ \E name \in LayoutNames, t \in clockReadings, ok \in BOOLEAN :
          untouched /\ CreateLayout(name, t, ok)
    \/ untouched /\ ResetData

SelectionSpec == SelectionInit /\ [][SelectionNext]_vars

-----------------------------------------------------------------------------
(* Properties of the tree mutator and of the identifiers *)

\* Every node of a tree in document order, reduced to the fields every node has
brief(list) ==
    [i \in DOMAIN flatten(list) |->
        [id |-> flatten(list)[i].id, type |-> flatten(list)[i].type,
         title |-> flatten(list)[i].title]]

\* The delete of last ran on a tree with unique identifiers that holds the identifier
deletedPresent ==
    /\ last.op = "delete"
    /\ uniqueIds(last.nodes)
    /\ last.id \in allIds(last.nodes)

\* The identifiers of the node with the identifier id and of its nested children
withChildren(list, id) ==
    {id} \cup UNION {{kidsOf(list[i])[j].id : j \in DOMAIN kidsOf(list[i])} :
                        i \in {k \in DOMAIN list : list[k].id = id}}

\* C1: starting from a tree whose identifiers are unique, after any sequence of
\* operations (here sidebar drops, reorders and deletes; the new identifiers are
\* those createNode derives from the time source) every identifier of the
\* tree, top level and nested, is unique.
C1_UniqueIdentifiers == uniqueIds(nodes)

\* C2, as stated: for a tree with unique identifiers and an identifier that is
\* present, deleteNode lowers the count of all nodes, top level and nested, by
\* exactly one.
C2_CountDropsByOne ==
    deletedPresent => nodeCount(nodes) = nodeCount(last.nodes) - 1

\* C2, amended: for a tree with unique identifiers and an identifier that is
\* present, deleteNode removes the node with that identifier and the nested
\* children that node holds, and nothing else: every other node stays, in the
\* same order, so the count drops by one plus the number of children of the
\* removed node (by exactly one for a nested child, a leaf or an empty container).
C2_RemovesNodeAndItsChildren ==
    deletedPresent =>
        LET gone == withChildren(last.nodes, last.id)
        IN  /\ brief(nodes) = SelectSeq(brief(last.nodes), LAMBDA b : b.id \notin gone)
            /\ nodeCount(nodes) = nodeCount(last.nodes) - Cardinality(gone)
            /\ last.id \in gone
            /\ (\A i \in DOMAIN last.nodes : last.nodes[i].id # last.id) => gone = {last.id}

\* C2's case: a top-level branch with its two children is deleted, and so is, in
\* another run, a nested child
C2_Witness ==
    /\ deletedPresent
    /\ \E i \in DOMAIN last.nodes :
          last.nodes[i].id = last.id /\ Len(kidsOf(last.nodes[i])) = 2
    /\ nodeCount(nodes) = nodeCount(last.nodes) - 3

\* C3: deleteNode is idempotent: for every tree and identifier, a second delete
\* with the same identifier yields the tree the first delete yielded.
C3_DeleteIdempotent ==
    last.op = "deleteAgain" => nodes = deleteRecursive(last.nodes, last.id)

\* C3's case: the identifier occurred more than once, at the top level and
\* nested, and the second delete has run
C3_Witness ==
    /\ last.op = "deleteAgain"
    /\ ~uniqueIds(last.nodes)
    /\ Cardinality({i \in DOMAIN flatten(last.nodes) : flatten(last.nodes)[i].id = last.id}) >= 2

\* C4: updateNode with n replaces each node whose identifier is n.id by n, at
\* the top level or among the children of a branch or the side events of a
\* block, and carries every other top-level node and every other nested child
\* over unchanged and in the same order.
C4_UpdateReplacesMatches ==
    last.op \in {"update", "branchCount", "addSideEvent"} =>
        /\ Len(nodes) = Len(last.nodes)
        /\ \A i \in DOMAIN last.nodes :
              IF last.nodes[i].id = last.id THEN nodes[i] = last.node
              ELSE /\ nodes[i].id = last.nodes[i].id
                   /\ nodes[i].type = last.nodes[i].type
                   /\ nodes[i].title = last.nodes[i].title
                   /\ Len(kidsOf(nodes[i])) = Len(kidsOf(last.nodes[i]))
                   /\ \A j \in DOMAIN kidsOf(last.nodes[i]) :
                         kidsOf(nodes[i])[j] =
                             IF kidsOf(last.nodes[i])[j].id = last.id THEN last.node
                             ELSE kidsOf(last.nodes[i])[j]

\* C4's case: the node replaced is a nested child with a sibling, in a tree
\* with another top-level node
C4_Witness ==
    /\ last.op = "update"
    /\ Len(last.nodes) >= 2
    /\ \E i \in DOMAIN last.nodes :
          /\ last.nodes[i].id # last.id
          /\ Len(kidsOf(last.nodes[i])) = 2
          /\ \E j \in DOMAIN kidsOf(last.nodes[i]) : kidsOf(last.nodes[i])[j].id = last.id
    /\ nodes # last.nodes

\* C5: updateNode and deleteNode with an identifier the tree holds nowhere
\* yield a tree equal to the input.
C5_UnknownIdentifierNoOp ==
    (last.op \in {"update", "delete"} /\ last.id \notin allIds(last.nodes))
        => nodes = last.nodes

\* C5's case: a delete with an identifier that a tree of three top-level nodes,
\* one of them with children, does not hold
C5_Witness ==
    /\ last.op = "delete"
    /\ last.id \notin allIds(last.nodes)
    /\ Len(last.nodes) = 3
    /\ nodeCount(last.nodes) > 3

-----------------------------------------------------------------------------
(* Properties of the drag/drop coordinator *)

\* handleDrop resolved a target from the hover state the drop ran in
droppedWithTarget == last.dragOverId # Null /\ last.dropPosition # Null

\* The target and the position of the drop of last: the hovered node's
\* identifier and half, or no target and 'append'
droppedTarget == IF droppedWithTarget THEN last.dragOverId ELSE Null
droppedPosition == IF droppedWithTarget THEN last.dropPosition ELSE "append"

\* The drop of last placed a node: outside the trash zone, on a target other
\* than the dragged node, a sidebar tool or a top-level node of the canvas
droppedNode ==
    /\ last.op = "drop"
    /\ ~last.isOverTrash
    /\ last.dragData.id # droppedTarget
    /\ \/ last.dragData.source = "sidebar"
       \/ /\ last.dragData.source = "canvas"
          /\ droppedWithTarget
          /\ someId(last.nodes, last.dragData.id)

\* The node that drop placed: the fresh node of a sidebar drop, the dragged
\* node of a canvas drop
placedNode ==
    IF last.dragData.source = "sidebar" THEN createNode(last.dragData.type, now)
    ELSE last.nodes[findIndex(last.nodes, last.dragData.id)]

\* The top level the node is placed in: for a canvas drop, the sequence without
\* the dragged node
placedAmong ==
    IF last.dragData.source = "sidebar" THEN last.nodes
    ELSE removeAt(last.nodes, findIndex(last.nodes, last.dragData.id))

\* C6: for a drop with a target other than the dragged node, 'before' places
\* the node at the top-level index immediately preceding the target, 'after' at
\* the index immediately following it, and 'append', a null target or a target
\* not found at the top level place it last, the other nodes keeping their
\* order; for a fresh sidebar node and for a canvas node removed from its old
\* index alike.
C6_DropPosition ==
    droppedNode =>
        \E at \in DOMAIN nodes :
            /\ nodes[at] = placedNode
            /\ removeAt(nodes, at) = placedAmong
            /\ IF droppedTarget # Null /\ someId(placedAmong, droppedTarget)
               THEN IF droppedPosition = "before"
                    THEN at < Len(nodes) /\ nodes[at + 1].id = droppedTarget
                    ELSE droppedPosition = "after" /\ at > 1 /\ nodes[at - 1].id = droppedTarget
               ELSE at = Len(nodes)

\* C6's case: a canvas node that stood before its target is dropped on the
\* target's second half and now follows it, with a node behind it
C6_Witness ==
    /\ droppedNode
    /\ last.dragData.source = "canvas"
    /\ droppedPosition = "after"
    /\ Len(nodes) >= 3
    /\ findIndex(last.nodes, last.dragData.id) < findIndex(last.nodes, droppedTarget)
    /\ findIndex(nodes, last.dragData.id) = findIndex(nodes, droppedTarget) + 1
    /\ findIndex(nodes, last.dragData.id) < Len(nodes)

\* C7: a canvas node dropped on itself, whatever the position, changes neither
\* the sequence nor the selection.
C7_SelfDropNoOp ==
    (/\ last.op = "drop"
     /\ last.dragData.source = "canvas"
     /\ last.dragOverId = last.dragData.id)
        => nodes = last.nodes /\ selectedNodeId = last.selectedNodeId

\* C7's case: the first of several top-level nodes was dropped on itself
C7_Witness ==
    /\ last.op = "drop"
    /\ last.dragData.source = "canvas"
    /\ last.dragOverId = last.dragData.id
    /\ Len(last.nodes) >= 2
    /\ last.nodes[1].id = last.dragData.id

\* C8: a drop while the trash zone is armed removes a node iff the source is
\* the canvas, and then exactly the dragged top-level node; a sidebar drop
\* leaves the sequence unchanged; no node is inserted.
C8_TrashDrop ==
    (/\ last.op = "drop"
     /\ last.isOverTrash
     /\ last.dragData.source = "canvas" => someId(last.nodes, last.dragData.id))
        => IF last.dragData.source = "canvas"
           THEN \E at \in DOMAIN last.nodes :
                    /\ last.nodes[at].id = last.dragData.id
                    /\ nodes = removeAt(last.nodes, at)
           ELSE nodes = last.nodes

\* The flags of the coordinator are those of Idle
flagsIdle ==
    /\ ~isDragging
    /\ ~isOverTrash
    /\ dragOverId = Null
    /\ dropPosition = Null

\* C9: after every drop the coordinator is Idle (isDragging false, dragOverId
\* and dropPosition null, isOverTrash false), and stays so until the next drag
\* starts.
C9_IdleAfterDrop == afterDrop => flagsIdle

\* C10: a drop on the empty canvas appends a fresh node at the end for a
\* sidebar source and leaves the sequence unchanged for a canvas source,
\* whatever nodes the drag hovered before.
C10_EmptyCanvasDrop ==
    (last.op = "drop" /\ last.pointer = "canvas")
        => IF last.dragData.source = "sidebar"
           THEN nodes = Append(last.nodes, createNode(last.dragData.type, now))
           ELSE nodes = last.nodes

-----------------------------------------------------------------------------
(* Properties of the properties panel *)

\* The branch the panel showed when handleBranchCountChange ran, and the first
\* node that bears its identifier afterwards
branchBefore == findNode(last.nodes, last.selectedNodeId)
branchAfter == findNode(nodes, last.id)

\* C17: the count 3 on a branch of two children appends one leaf, a task titled
\* "parallel task" with the default fields, and keeps the two children, in
\* order; the count 2 on a branch of three children keeps the first two
C17_BranchCount ==
    last.op = "branchCount" =>
        /\ (Len(branchBefore.branches) = 2 /\ last.count = 3) =>
              /\ Len(branchAfter.branches) = 3
              /\ SubSeq(branchAfter.branches, 1, 2) = branchBefore.branches
              /\ branchAfter.branches[3].type = "task"
              /\ branchAfter.branches[3].title = "parallel task"
              /\ DOMAIN branchAfter.branches[3] = {"id", "type", "title"}
              /\ [branchAfter EXCEPT !.branches = <<>>] = [branchBefore EXCEPT !.branches = <<>>]
        /\ (Len(branchBefore.branches) = 3 /\ last.count = 2) =>
              branchAfter.branches = SubSeq(branchBefore.branches, 1, 2)

\* A third child was appended to a branch of two, and a branch of three was cut
\* down to two
C17_Witness ==
    /\ last.op = "branchCount"
    /\ Len(branchBefore.branches) = 3
    /\ last.count = 2
    /\ Len(branchAfter.branches) = 2
    /\ branchAfter.branches[2].id = "2b"

-----------------------------------------------------------------------------
(* Properties of the persistence *)

\* No timer that can write is pending
quiescent == ~debounceTimer /\ saveTimers = <<>>

\* C11: edits that each arrive before the debounce timer of the one before has
\* fired produce exactly one storage write, made after the last of them and
\* holding the tree as the last of them left it.  Stated where the last event
\* of the user is an edit and every timer has fired.
C11_EditsWrittenOnce ==
    (last.op = "delete" /\ quiescent) => (writesSinceEdit = 1 /\ wrote.fresh)

\* C12: the write of a layout switch from A to B holds the tree of the working
\* copy, as it was before the switch, under layout A, and A as the active layout
C12_SwitchSavesWorkingCopy ==
    (last.op = "switch" /\ wrote.by = "switch") =>
        /\ wrote.activeLayoutId = last.activeLayoutId
        /\ wrote.held
        /\ wrote.nodes = last.nodes

\* C13: the save state machine is never in a status from which neither an edit
\* nor the save button can bring a write: 'saving', which disables the button
\* and keeps edits from marking the state unsaved, with no deferred save pending
\* to end it
C13_SaveNeverStuck == ~(saveStatus = "saving" /\ saveTimers = <<>>)

\* C14: the active layout id is the id of one of the layouts in memory, and the
\* working tree is the tree of that layout
C14_ActiveLayoutIsLoaded ==
    /\ findLayout(layouts, activeLayoutId) # 0
    /\ layouts[findLayout(layouts, activeLayoutId)].nodes = nodes

\* C15: a reset leaves the two built-in layouts with their built-in trees, the
\* first of them active and nothing selected; and the record a write leaves in
\* storage after the reset holds no layout but the built-in ones, with their
\* built-in trees, as long as no edit and no new layout followed the reset
C15_ResetIsFinal ==
    /\ last.op = "reset" =>
          /\ layouts = DEFAULT_LAYOUTS
          /\ activeLayoutId = "layout_weekday"
          /\ nodes = INITIAL_NODES
          /\ selectedNodeId = Null
    /\ (afterReset /\ storage # NoRecord) => storage.layouts = DEFAULT_LAYOUTS

-----------------------------------------------------------------------------
(* Properties of the view and of the layouts *)

\* The point under the pointer of the last wheel event, relative to the
\* container, and the world point the view before the event showed there
screenPoint == [x |-> int(last.event.clientX - ContainerRect.left),
                y |-> int(last.event.clientY - ContainerRect.top)]
worldPoint ==
    [x |-> ratDiv(ratSub(screenPoint.x, last.pan.x), zoomRat(last.zoom)),
     y |-> ratDiv(ratSub(screenPoint.y, last.pan.y), zoomRat(last.zoom))]
zoomWheel == last.op = "wheel" /\ (last.event.ctrlKey \/ last.event.buttons = 2)

\* C16: after a wheel event in zoom mode at the screen point s, the world point
\* that was under s is under s again: worldPoint * zoom + pan = s, with
\* worldPoint = (s - pan) / zoom of the view before the event and the new zoom
\* the old one plus the event's amount, clamped
C16_ZoomKeepsPointUnderCursor ==
    zoomWheel =>
        /\ zoom = Min(Max(last.zoom - last.event.deltaY, 200), 3000)
        /\ ratAdd(ratMul(worldPoint.x, zoomRat(zoom)), pan.x) = screenPoint.x
        /\ ratAdd(ratMul(worldPoint.y, zoomRat(zoom)), pan.y) = screenPoint.y

\* The example of the claim: zoom 1 and pan (0, 0), the event at (100, 100), the
\* new zoom 1.5; and a zoom from a view whose pan is not zero
C16_Witness ==
    /\ zoomWheel
    /\ last.zoom = 1000
    /\ last.pan = [x |-> int(0), y |-> int(0)]
    /\ screenPoint = [x |-> int(100), y |-> int(100)]
    /\ zoom = 1500
    /\ pan = [x |-> int(0 - 50), y |-> int(0 - 50)]

\* The primary axis of a layout: the vertical layout stacks the nodes along y,
\* the rows of the map layout run along x
primaryCoordinate(mode, e) == IF mode = "vertical" THEN e.clientY ELSE e.clientX
primaryMidpoint(mode, rect) ==
    IF mode = "vertical" THEN rect.top + rect.height \div 2
    ELSE rect.left + rect.width \div 2

\* C18: in either layout, a hover of a node's drop zone makes that node the
\* hover target and resolves 'before' when the pointer's primary-axis
\* coordinate is strictly below the zone's midpoint, 'after' otherwise
C18_HoverPosition ==
    last.op = "hover" =>
        /\ dragOverId = last.id
        /\ dropPosition =
              IF primaryCoordinate(viewMode, last.event) < primaryMidpoint(viewMode, ZoneRect)
              THEN "before" ELSE "after"

\* The maxima of the zoom in the source: of handleZoomIn and of handleWheel
ZoomMaxima == {2000, 3000}

\* C19: there is one range [200, zoomMax] the zoom stays in, with which zoom-in
\* sets min(zoom + step, zoomMax) and zoom-out max(zoom - step, 200), both
\* leaving the pan as it is; zoom-in never lowers the zoom, zoom-out never
\* raises it
C19_OneZoomRange ==
    \E zoomMax \in ZoomMaxima :
        /\ 200 <= zoom /\ zoom <= zoomMax
        /\ last.op = "zoomIn" =>
              /\ zoom = Min(last.zoom + 100, zoomMax)
              /\ pan = last.pan
              /\ zoom >= last.zoom
        /\ last.op = "zoomOut" =>
              /\ zoom = Max(last.zoom - 100, 200)
              /\ pan = last.pan
              /\ zoom <= last.zoom

\* The cell of a position of the map layout
cell(position) ==
    [row |-> (position.y - OFFSET_Y) \div GRID_H, col |-> (position.x - OFFSET_X) \div GRID_W]
cells == [k \in DOMAIN nodes |-> cell(positions(nodes)[k])]

\* C20: the node at 0-based index i is in row i div COLS, in column i mod COLS
\* of an even row and COLS - 1 - (i mod COLS) of an odd row; nodes at distinct
\* indices are in distinct cells; nodes at consecutive indices are side by side
\* in a row, or one below the other in consecutive rows
C20_SnakeCells ==
    /\ \A k \in DOMAIN nodes :
          /\ cells[k].row = (k - 1) \div COLS
          /\ cells[k].col = IF cells[k].row % 2 = 0 THEN (k - 1) % COLS
                            ELSE COLS - 1 - ((k - 1) % COLS)
          /\ positions(nodes)[k].row = cells[k].row
    /\ \A k, m \in DOMAIN nodes : k # m => cells[k] # cells[m]
    /\ \A k \in DOMAIN nodes :
          k + 1 \in DOMAIN nodes =>
             \/ cells[k].row = cells[k + 1].row /\ abs(cells[k].col - cells[k + 1].col) = 1
             \/ cells[k].col = cells[k + 1].col /\ cells[k + 1].row = cells[k].row + 1

\* The map layout shows a list whose snake turns at the right end of row 0 and
\* at the left end of row 1
C20_Witness ==
    /\ viewMode = "map"
    /\ Len(nodes) >= 9
    /\ cells[4] = [row |-> 0, col |-> 3]
    /\ cells[5] = [row |-> 1, col |-> 3]
    /\ cells[8] = [row |-> 1, col |-> 0]
    /\ cells[9] = [row |-> 2, col |-> 0]

------------------------------------------------------------------------------
(* Properties of the shape of the tree *)

\* The branch nodes of the top level of list
branchesOf(list) == {i \in DOMAIN list : list[i].type = "branch"}

\* C21: in every state the editor's operations reach (add, update, branch-count
\* change, delete of any identifier of the tree) every branch node has at least
\* two children.
C21_BranchesKeepTwoChildren ==
    \A i \in branchesOf(nodes) : Len(nodes[i].branches) >= 2

\* The leaf types of SingleNode
LeafTypes == {"time", "task", "place"}

\* Every child of a branch and every side event of a block of list is a leaf
oneLevel(list) ==
    \A i \in DOMAIN list :
        \A j \in DOMAIN kidsOf(list[i]) : kidsOf(list[i])[j].type \in LeafTypes

\* C22: nesting is exactly one level deep: after every add, update, branch-count
\* change, side-event add and delete, every child of a branch and every side
\* event of a block is a leaf node (time, task or place), never a branch or a
\* block.
C22_OneLevelNesting == oneLevel(nodes)

\* C22's case: a branch-count change has put a third child into a branch
C22_Witness ==
    /\ last.op = "branchCount"
    /\ nodeCount(nodes) = nodeCount(last.nodes) + 1
    /\ \E i \in DOMAIN nodes : nodes[i].type = "branch" /\ Len(nodes[i].branches) = 3

------------------------------------------------------------------------------
(* Properties of a reorder by drag and drop *)

\* How many elements of list equal x
occurrences(list, x) == Cardinality({i \in DOMAIN list : list[i] = x})

\* a and b hold the same top-level nodes, each with its nested children, as
\* often as the other
permutation(a, b) ==
    /\ Len(a) = Len(b)
    /\ \A i \in DOMAIN a : occurrences(a, a[i]) = occurrences(b, a[i])

\* The drop of last reached the canvas, outside the trash zone, with a payload
\* of a canvas node
canvasDrop ==
    /\ last.op = "drop"
    /\ last.dragData.source = "canvas"
    /\ ~last.isOverTrash

\* C29: a canvas-sourced drop on the canvas never adds or removes nodes: the
\* top-level sequence after it is a permutation of the one before (the same
\* nodes with the same nested children, the same length), and when the dragged
\* identifier is not that of a top-level node the sequence is unchanged.
C29_CanvasDropPermutes ==
    canvasDrop =>
        /\ permutation(nodes, last.nodes)
        /\ ~someId(last.nodes, last.dragData.id) => nodes = last.nodes

\* C29's case: a canvas-sourced drop has moved a node of a tree of three
C29_Witness ==
    /\ canvasDrop
    /\ Len(last.nodes) = 3
    /\ nodes # last.nodes

------------------------------------------------------------------------------
(* Properties of the end of a drag *)

\* C30: every drag that starts returns the coordinator to Idle, whether it
\* ends with a drop on the canvas, with a drop on the trash or without a drop
\* event: whenever no drag gesture is in progress the dragging flag is false,
\* so the trash zone is not armed.
C30_DraggingOnlyDuringDrag == idle => ~isDragging

------------------------------------------------------------------------------
(* Properties of the save status and of the layouts at rest *)

\* C27: whenever the save status is 'saved' (and the storage was not cleared by
\* a reset since the last edit), the persisted record is the merge of the
\* current active sequence into the current layouts, with the current active
\* id: no edit made before the status became 'saved' is missing from storage.
C27_SavedIsPersisted ==
    (saveStatus = "saved" /\ ~afterReset)
        => storage = getPersistentData(layouts, activeLayoutId, nodes)

\* The operations of last that edit the active sequence
NodeOps == {"add", "drop", "update", "branchCount", "addSideEvent", "delete", "deleteAgain"}

\* The layouts of list other than the one with the identifier id are those of
\* before, at the same places
othersAsIn(list, id, before) ==
    /\ Len(list) = Len(before)
    /\ \A i \in DOMAIN list : list[i].id # id => list[i] = before[i]

\* The state is the one the load effect left for a stored record whose
\* activeLayoutId names one of its layouts
justLoaded ==
    /\ last.op = "none"
    /\ wrote.by = "none"
    /\ loads(storage)
    /\ findLayout(storage.layouts, storage.activeLayoutId) # 0

\* C26: a layout's sequence changes only while it is the active layout.  A node
\* operation on the active sequence leaves every other layout as it was, in
\* memory and in the record a save has made of the state and written since; and
\* the layouts loaded from storage, other than the active one, are those the
\* record holds.
C26_OtherLayoutsUntouched ==
    /\ last.op \in NodeOps =>
          /\ othersAsIn(layouts, activeLayoutId, last.layouts)
          /\ (wrote.ok /\ wrote.fresh /\ writesSinceEdit > 0)
                => othersAsIn(storage.layouts, storage.activeLayoutId, last.layouts)
    /\ justLoaded => othersAsIn(layouts, activeLayoutId, storage.layouts)

\* The save button was the last event, pressed with a debounced save pending
\* and no deferred save of an earlier request: the state was 'unsaved' and no
\* save had written since the last edit
savePressedWhilePending ==
    /\ last.op = "save"
    /\ last.saveStatus = "unsaved"
    /\ last.writesSinceEdit = 0
    /\ last.pending = 0

\* C24: a manual save requested while a debounced save is pending (and no
\* earlier deferred save is) makes exactly one storage write for that state.  From the request to the deferred write
\* the status is 'saving' and nothing is written; the write is performed by the
\* deferred save, without waiting for the debounce timer; when it succeeds the
\* status is 'saved' and storage holds the state; and the debounce timer, before
\* and after it fires, has written nothing more.
C24_ManualSaveWritesOnce ==
    savePressedWhilePending =>
        IF saveTimers # <<>>
        THEN saveStatus = "saving" /\ writesSinceEdit = 0
        ELSE /\ writesSinceEdit = 1
             /\ wrote.by = "manual"
             /\ wrote.ok => /\ saveStatus = "saved"
                            /\ storage = getPersistentData(layouts, activeLayoutId, nodes)

\* C24's case: the deferred save has written and the debounce timer set at the
\* request has fired after it
C24_Witness ==
    /\ savePressedWhilePending
    /\ saveTimers = <<>>
    /\ ~debounceTimer
    /\ wrote.ok
    /\ storage.activeLayoutId = "layout_weekend"

------------------------------------------------------------------------------
(* Properties of the keyboard and of the resize gesture *)

\* C23: an arming of the delete confirmation lasts until it is confirmed, the
\* selection changes or its own timer expires: a confirmation timer that
\* clears the armed confirmation is the timer of that arming, the latest one,
\* never the timer of an earlier arming, also when the earlier arming was of
\* the same node.
C23_TimerClearsOwnArming ==
    (last.op = "confirmTimer" /\ last.deleteConfirmId = last.id)
        => last.count = last.armSerial

\* C28: an update issued by a mouse-move of a resize gesture is applied to the
\* current node sequence, not to the one captured when the gesture began: the
\* sequence after it is the one before it with the resized node replaced, so
\* that a node deleted or edited since the gesture began stays deleted or
\* edited, and an update for an identifier no longer in the tree changes
\* nothing.
C28_ResizeUpdatesCurrentNodes ==
    last.op = "resize" => nodes = updateRecursive(last.nodes, last.node)

\* C25: in every state the selection is null or the identifier of a node of the
\* active tree: a delete that removes the selected node (by the keyboard
\* confirmation, a drop on the trash or the properties panel) clears the
\* selection, and so do a layout switch, a new layout and a reset.
C25_SelectionInTree == selectedNodeId = Null \/ selectedNodeId \in allIds(nodes)

\* C25's case: the selected node was deleted by the second Backspace, and the
\* tree holds other nodes
C25_Witness ==
    /\ last.op = "delete"
    /\ last.deleteConfirmId = last.id
    /\ last.selectedNodeId = last.id
    /\ nodes # <<>>
    /\ selectedNodeId = Null

=============================================================================
